---- MODULE Spec2Model ----
(***************************************************************************)
(* A model of `kola qemuexec` (mantle/cmd/kola/qemuexec.go): one run of    *)
(* runQemuExec over the package-level option variables, with the platform  *)
(* builder, the configuration document, the instance and the run context   *)
(* as observable state.                                                    *)
(*                                                                         *)
(* Strings the code splits or inspects (bind specs, the disk image path,   *)
(* the working directory) are sequences of characters, a comma-free        *)
(* literal standing as one element where the code only appends it; strings *)
(* the code only compares or passes on are TLA+ strings.  An error value   *)
(* is the sequence of its message parts, outermost wrapper first; the nil  *)
(* error is the empty sequence.                                            *)
(*                                                                         *)
(* Options that are copied to the builder and never read again (memory,    *)
(* kargs, knetargs, firmware, the nvme / native-4k / multipath / nbd disk  *)
(* attributes, inject-ignition, the trailing arguments) take no part in    *)
(* any decision of runQemuExec and are left out of the builder record.     *)
(***************************************************************************)
EXTENDS Integers, Sequences, FiniteSets, TLC

\* ------------------------------------------------------------------ bounds

\* Longest user-supplied --add-ignition list.
MaxFrags == 1
\* Most user-supplied --bind-ro plus --bind-rw entries.
MaxBinds == 1

\* Longest --add-ignition list of the specification that enumerates them.
MaxFragList == 3
\* Longest bind spec of the specification that enumerates bind specs.
MaxSpecLen == 5

\* ------------------------------------------------------------ input values

Nil == <<>>

\* Fragment names a user can pass: the one well-known name and another one.
FragmentNames == {"autologin", "motd"}

\* Bind specs a user can pass: SRC,DEST; a spec with two commas; no comma.
BindSpecs ==
    { <<"a", ",", "b">>, <<"b", ",", "a", ",", "c">>, <<"a">> }

\* kola.QEMUOptions.DiskImage: unset, an rhcos image, another image in a
\* directory.
DiskImages ==
    { <<>>, <<"r", "h", "c", "o", "s", "1">>, <<"d", "/", "f", "c", "o", "s">> }

\* kola.Options.CosaWorkdir: unset or a directory.
CosaWorkdirs == { <<>>, <<"w">> }

KolaPlatforms == {"qemu", "aws"}
IgnitionPaths == {"", "config.ign"}
Hostnames == {"", "myhost"}
ConsoleFiles == {"", "console.log"}

\* The ISO (kola.QEMUIsoOptions.IsoPath) and the number of --add-disk
\* entries: neither given, or an ISO and two extra disks.
ExtraMedia ==
    { [ isoPath |-> "", addDisks |-> 0 ],
      [ isoPath |-> "live.iso", addDisks |-> 2 ] }

\* What an instance's wait can report: success or one of two failures.
WaitErrors == { Nil, <<"qemu exited with an error">>, <<"initramfs failure">> }

SeqsUpTo(S, n) == UNION { [1..k -> S] : k \in 0..n }

\* ------------------------------------------------------- string operators

\* strings.SplitN(s, ",", 2): the text before the first comma and the text
\* after it, or s alone when it holds no comma.
RECURSIVE IndexOf(_, _, _)
IndexOf(s, c, i) ==
    IF i > Len(s) THEN 0
    ELSE IF s[i] = c THEN i
    ELSE IndexOf(s, c, i + 1)

SplitN2(s) ==
    LET k == IndexOf(s, ",", 1)
    IN  IF k = 0 THEN << s >>
        ELSE << SubSeq(s, 1, k - 1), SubSeq(s, k + 1, Len(s)) >>

\* strings.HasPrefix(s, p)
HasPrefix(s, p) ==
    /\ Len(s) >= Len(p)
    /\ SubSeq(s, 1, Len(p)) = p

\* filepath.Base(p): the last element of p, trailing slashes removed; "."
\* for the empty path and "/" for a path of slashes only.
RECURSIVE StripTrailingSlashes(_)
StripTrailingSlashes(p) ==
    IF Len(p) > 0 /\ p[Len(p)] = "/"
    THEN StripTrailingSlashes(SubSeq(p, 1, Len(p) - 1))
    ELSE p

RECURSIVE LastSlash(_, _)
LastSlash(p, i) ==
    IF i = 0 THEN 0
    ELSE IF p[i] = "/" THEN i
    ELSE LastSlash(p, i - 1)

Base(p) ==
    IF p = <<>> THEN << "." >>
    ELSE LET q == StripTrailingSlashes(p)
         IN  IF q = <<>> THEN << "/" >>
             ELSE SubSeq(q, LastSlash(q, Len(q)) + 1, Len(q))

Rhcos == << "r", "h", "c", "o", "s" >>

\* ------------------------------------------------------------------ errors

ErrConsoleDevshell == << "Cannot use console devshell and --console-to-file" >>
ErrDevshellDirect == << "Cannot use devshell with direct ignition" >>
ErrNoDiskImage == << "No disk image provided" >>
ErrDirectNoPath ==
    << "Cannot use ignition-direct without a path to an Ignition config" >>
ErrFragmentsDirect == << "Cannot use fragments with direct ignition" >>
ErrMountsDirect == << "Cannot use mounts with direct ignition" >>
ErrFragmentsMountsDirect ==
    << "Cannot use fragments/mounts with direct ignition" >>
ErrMalformedBind == << "malformed bind option, required: SRC,DEST" >>
ErrUnknownFragment(name) == << "Unknown fragment: ", name >>

\* errors.Wrapf(err, msg): msg in front of the cause.
Wrapf(err, msg) == msg \o err

\* Failures of the collaborators.
ErrReadFile == << "open: no such file or directory" >>
ErrRender == << "render: invalid config" >>
ErrAddBootDisk == << "AddBootDisk failed" >>
ErrAddIso == << "AddIso failed" >>
ErrAddDisk == << "AddDisk failed" >>
ErrExec == << "Exec failed" >>

\* ------------------------------------------------------------------- state

VARIABLES
    flags,              \* the option variables as the command line set them
    devshell,           \* the package variables runQemuExec assigns to
    ignitionFragments,
    cpuCountHost,
    usernet,
    bindro,
    bindrw,
    hostname,
    pc,                 \* position of the run in runQemuExec
    idx,                \* index of the bind loop in progress
    config,             \* *conf.Conf: the first-boot configuration document
    builder,            \* *platform.QemuBuilder
    inst,               \* the instance builder.Exec() returned
    cancelled,          \* number of calls of the context's cancel()
    ret,                \* the error runQemuExec returned
    calls               \* the calls made on collaborators, in order

vars ==
    << flags, devshell, ignitionFragments, cpuCountHost, usernet, bindro,
       bindrw, hostname, pc, idx, config, builder, inst, cancelled, ret,
       calls >>

globals ==
    << devshell, ignitionFragments, cpuCountHost, usernet, bindro, bindrw,
       hostname >>

\* The fixed devshell hostname (devshellHostname, set in devshell.go).
devshellHostname == "cosa-devsh"

NilConfig ==
    [ nil |-> TRUE, source |-> "", injections |-> <<>>, mounts |-> <<>> ]

NoBuilder ==
    [ created |-> FALSE, mounts |-> <<>>, bootDisk |-> <<>>, iso |-> "",
      disks |-> 0, Hostname |-> "", Processors |-> 0, forwards |-> <<>>,
      usermodeNetworking |-> FALSE, InheritConsole |-> FALSE,
      ConsoleFile |-> "", ConfigFile |-> "", config |-> NilConfig,
      closed |-> 0 ]

\* waited / reported: the wait the run blocked in and what it reported.
NoInstance ==
    [ launched |-> FALSE, destroyed |-> 0, waited |-> "", reported |-> Nil ]

\* The user's bind lists: at most MaxBinds entries over both lists.
BindLists ==
    { bl \in SeqsUpTo(BindSpecs, MaxBinds) \X SeqsUpTo(BindSpecs, MaxBinds) :
        Len(bl[1]) + Len(bl[2]) <= MaxBinds }

\* The flag defaults of init() that the claims checked under Spec leave
\* alone: --usernet, --auto-cpus and --hostname.
FlagSets ==
    [ devshell : BOOLEAN,
      devshellConsole : BOOLEAN,
      consoleFile : ConsoleFiles,
      directIgnition : BOOLEAN,
      ignition : IgnitionPaths,
      propagateInitramfsFailure : BOOLEAN,
      ignitionFragments : SeqsUpTo(FragmentNames, MaxFrags),
      binds : BindLists,
      usernet : {FALSE},
      cpuCountHost : {FALSE},
      hostname : {""},
      diskImage : DiskImages,
      media : ExtraMedia,
      kolaPlatform : KolaPlatforms,
      cosaWorkdir : CosaWorkdirs ]

InitWith(F) ==
    /\ flags \in F
    /\ devshell = flags.devshell
    /\ ignitionFragments = flags.ignitionFragments
    /\ cpuCountHost = flags.cpuCountHost
    /\ usernet = flags.usernet
    /\ bindro = flags.binds[1]
    /\ bindrw = flags.binds[2]
    /\ hostname = flags.hostname
    /\ pc = "start"
    /\ idx = 1
    /\ config = NilConfig
    /\ builder = NoBuilder
    /\ inst = NoInstance
    /\ cancelled = 0
    /\ ret = Nil
    /\ calls = <<>>

Init == InitWith(FlagSets)

\* --------------------------------------------------- leaving runQemuExec

\* The deferred calls that run at a return, last registered first:
\* inst.Destroy() (line 275), builder.Close() (line 179), cancel() (115).
DeferredCalls ==
    (IF inst.launched THEN << "Destroy" >> ELSE <<>>)
    \o (IF builder.created THEN << "Close" >> ELSE <<>>)
    \o << "cancel" >>

\* ReturnFrom with inst.Destroy() called on the success path only, in place
\* of being deferred.
ReturnDestroyOnSuccessOnly(e, cs, i) ==
    /\ pc' = "done"
    /\ ret' = e
    /\ calls' = calls \o cs
                 \o (IF i.launched /\ e = Nil THEN << "Destroy" >> ELSE <<>>)
                 \o (IF builder.created THEN << "Close" >> ELSE <<>>)
                 \o << "cancel" >>
    /\ inst' = IF i.launched /\ e = Nil
               THEN [i EXCEPT !.destroyed = @ + 1]
               ELSE i
    /\ builder' = IF builder.created
                  THEN [builder EXCEPT !.closed = @ + 1]
                  ELSE builder
    /\ cancelled' = cancelled + 1

\* ReturnFrom with builder.Close() called before `return nil` only, in place
\* of being deferred.
ReturnCloseOnSuccessOnly(e, cs, i) ==
    /\ pc' = "done"
    /\ ret' = e
    /\ calls' = calls \o cs
                 \o (IF i.launched THEN << "Destroy" >> ELSE <<>>)
                 \o (IF builder.created /\ e = Nil THEN << "Close" >> ELSE <<>>)
                 \o << "cancel" >>
    /\ inst' = IF i.launched
               THEN [i EXCEPT !.destroyed = @ + 1]
               ELSE i
    /\ builder' = IF builder.created /\ e = Nil
                  THEN [builder EXCEPT !.closed = @ + 1]
                  ELSE builder
    /\ cancelled' = cancelled + 1

\* ReturnFrom with cancel() called before `return nil` only, in place of
\* being deferred.
ReturnCancelOnSuccessOnly(e, cs, i) ==
    /\ pc' = "done"
    /\ ret' = e
    /\ calls' = calls \o cs
                 \o (IF i.launched THEN << "Destroy" >> ELSE <<>>)
                 \o (IF builder.created THEN << "Close" >> ELSE <<>>)
                 \o (IF e = Nil THEN << "cancel" >> ELSE <<>>)
    /\ inst' = IF i.launched
               THEN [i EXCEPT !.destroyed = @ + 1]
               ELSE i
    /\ builder' = IF builder.created
                  THEN [builder EXCEPT !.closed = @ + 1]
                  ELSE builder
    /\ cancelled' = IF e = Nil THEN cancelled + 1 ELSE cancelled

\* `return e` after the calls cs made in the same statement group, which
\* left the instance as i.
ReturnFrom(e, cs, i) ==
    /\ pc' = "done"
    /\ ret' = e
    /\ calls' = calls \o cs \o DeferredCalls
    /\ inst' = IF i.launched
               THEN [i EXCEPT !.destroyed = @ + 1]
               ELSE i
    /\ builder' = IF builder.created
                  THEN [builder EXCEPT !.closed = @ + 1]
                  ELSE builder
    /\ cancelled' = cancelled + 1

Return(e, cs) == ReturnFrom(e, cs, inst)

\* Falling through to position p, having made the calls cs.
Goto(p, cs) ==
    /\ pc' = p
    /\ calls' = calls \o cs
    /\ UNCHANGED << ret, cancelled >>

\* ------------------------------------------------------------ pure helpers

\* parseBindOpt with a spec without a comma taken as a source without a
\* destination.
parseBindOptPartial(s) ==
    LET parts == SplitN2(s)
    IN  IF Len(parts) = 1
        THEN [ src |-> parts[1], dest |-> <<>>, err |-> Nil ]
        ELSE [ src |-> parts[1], dest |-> parts[2], err |-> Nil ]

\* parseBindOpt with strings.Split in place of strings.SplitN(s, ",", 2):
\* DEST ends at the second comma.
parseBindOptSplitsAll(s) ==
    LET parts == SplitN2(s)
    IN  IF Len(parts) = 1
        THEN [ src |-> <<>>, dest |-> <<>>, err |-> ErrMalformedBind ]
        ELSE [ src |-> parts[1], dest |-> SplitN2(parts[2])[1], err |-> Nil ]

\* parseBindOpt (lines 102-108)
parseBindOpt(s) ==
    LET parts == SplitN2(s)
    IN  IF Len(parts) = 1
        THEN [ src |-> <<>>, dest |-> <<>>, err |-> ErrMalformedBind ]
        ELSE [ src |-> parts[1], dest |-> parts[2], err |-> Nil ]

\* c.AddAutoLogin()
AddAutoLogin(c) == [c EXCEPT !.injections = Append(@, "autologin")]

\* renderFragments (lines 90-100): the document after the loop, the error
\* and the calls made.
RECURSIVE renderFragmentsFrom(_, _, _)
renderFragmentsFrom(fragments, c, i) ==
    IF i > Len(fragments)
    THEN [ conf |-> c, err |-> Nil, calls |-> <<>> ]
    ELSE IF fragments[i] = "autologin"
    THEN LET r == renderFragmentsFrom(fragments, AddAutoLogin(c), i + 1)
         IN  [ r EXCEPT !.calls = << "AddAutoLogin" >> \o @ ]
    ELSE [ conf |-> c, err |-> ErrUnknownFragment(fragments[i]),
           calls |-> <<>> ]

\* renderFragments with every name checked before the first injection.
renderFragmentsChecksFirst(fragments, c) ==
    LET r == renderFragmentsFrom(fragments, c, 1)
    IN  IF r.err # Nil THEN [ conf |-> c, err |-> r.err, calls |-> <<>> ]
        ELSE r

renderFragments(fragments, c) == renderFragmentsFrom(fragments, c, 1)

\* builder.Mount9p(src, dest, readonly) and config.Mount9p(dest, readonly)
BuilderMount9p(b, src, dest, ro) ==
    [b EXCEPT !.mounts = Append(@, << src, dest, ro >>)]

\* ConfigMount9p with the access mode of the binding lost.
ConfigMount9pAlwaysReadOnly(c, dest, ro) ==
    [c EXCEPT !.mounts = Append(@, << dest, TRUE >>)]

ConfigMount9p(c, dest, ro) ==
    [c EXCEPT !.mounts = Append(@, << dest, ro >>)]

\* Where the run goes once the bind loop at position p has no entry left.
AfterBinds(p) ==
    IF p = "newbuilder" /\ Len(bindro) > 0 THEN "bindro"
    ELSE IF p \in {"newbuilder", "bindro"} /\ Len(bindrw) > 0 THEN "bindrw"
    ELSE "media"

\* ----------------------------------------------------------------- actions

\* CheckDevshellConsole with the console file refused only when --devshell
\* itself was given.
CheckDevshellConsoleNeedsDevshell ==
    /\ pc = "start"
    /\ devshell' = (IF flags.devshellConsole THEN TRUE ELSE devshell)
    /\ IF flags.devshellConsole /\ devshell /\ flags.consoleFile # ""
       THEN Return(ErrConsoleDevshell, <<>>)
       ELSE Goto("devshell", <<>>) /\ UNCHANGED << builder, inst >>
    /\ UNCHANGED << flags, ignitionFragments, cpuCountHost, usernet, bindro,
                    bindrw, hostname, idx, config >>

\* Lines 117-123: devshell-console implies devshell and excludes
\* --console-to-file.
CheckDevshellConsole ==
    /\ pc = "start"
    /\ devshell' = (IF flags.devshellConsole THEN TRUE ELSE devshell)
    /\ IF flags.devshellConsole /\ flags.consoleFile # ""
       THEN Return(ErrConsoleDevshell, <<>>)
       ELSE Goto("devshell", <<>>) /\ UNCHANGED << builder, inst >>
    /\ UNCHANGED << flags, ignitionFragments, cpuCountHost, usernet, bindro,
                    bindrw, hostname, idx, config >>

\* Lines 135-141: the two automatic bindings of devshell mode.
AutoMount ==
    /\ flags.cosaWorkdir # <<>>
    /\ ~HasPrefix(Base(flags.diskImage), Rhcos)

\* CheckDevshell with the devshell hostname set over a user-supplied one.
CheckDevshellOverridesHostname ==
    /\ pc = "devshell"
    /\ IF devshell /\ flags.directIgnition
       THEN Return(ErrDevshellDirect, <<>>) /\ UNCHANGED globals
       ELSE IF devshell /\ flags.diskImage = <<>> /\ flags.kolaPlatform = "qemu"
       THEN Return(ErrNoDiskImage, <<>>) /\ UNCHANGED globals
       ELSE IF devshell
       THEN /\ ignitionFragments' = Append(ignitionFragments, "autologin")
            /\ cpuCountHost' = TRUE
            /\ usernet' = TRUE
            /\ bindro' = IF AutoMount
                         THEN Append(bindro, flags.cosaWorkdir
                                             \o << ",", "/var/mnt/workdir" >>)
                         ELSE bindro
            /\ bindrw' = IF AutoMount
                         THEN Append(bindrw, flags.cosaWorkdir \o << "/tmp" >>
                                             \o << ",", "/var/mnt/workdir-tmp" >>)
                         ELSE bindrw
            /\ hostname' = devshellHostname
            /\ Goto("direct", <<>>)
            /\ UNCHANGED << devshell, builder, inst >>
       ELSE Goto("direct", <<>>) /\ UNCHANGED << globals, builder, inst >>
    /\ UNCHANGED << flags, idx, config >>

\* CheckDevshell with the disk image checked before direct ignition.
CheckDevshellDiskImageFirst ==
    /\ pc = "devshell"
    /\ IF devshell /\ flags.diskImage = <<>> /\ flags.kolaPlatform = "qemu"
       THEN Return(ErrNoDiskImage, <<>>) /\ UNCHANGED globals
       ELSE IF devshell /\ flags.directIgnition
       THEN Return(ErrDevshellDirect, <<>>) /\ UNCHANGED globals
       ELSE IF devshell
       THEN /\ ignitionFragments' = Append(ignitionFragments, "autologin")
            /\ cpuCountHost' = TRUE
            /\ usernet' = TRUE
            /\ bindro' = IF AutoMount
                         THEN Append(bindro, flags.cosaWorkdir
                                             \o << ",", "/var/mnt/workdir" >>)
                         ELSE bindro
            /\ bindrw' = IF AutoMount
                         THEN Append(bindrw, flags.cosaWorkdir \o << "/tmp" >>
                                             \o << ",", "/var/mnt/workdir-tmp" >>)
                         ELSE bindrw
            /\ hostname' = IF hostname = "" THEN devshellHostname ELSE hostname
            /\ Goto("direct", <<>>)
            /\ UNCHANGED << devshell, builder, inst >>
       ELSE Goto("direct", <<>>) /\ UNCHANGED << globals, builder, inst >>
    /\ UNCHANGED << flags, idx, config >>

\* Lines 124-145: the devshell checks and defaults.
CheckDevshell ==
    /\ pc = "devshell"
    /\ IF devshell /\ flags.directIgnition
       THEN Return(ErrDevshellDirect, <<>>) /\ UNCHANGED globals
       ELSE IF devshell /\ flags.diskImage = <<>> /\ flags.kolaPlatform = "qemu"
       THEN Return(ErrNoDiskImage, <<>>) /\ UNCHANGED globals
       ELSE IF devshell
       THEN /\ ignitionFragments' = Append(ignitionFragments, "autologin")
            /\ cpuCountHost' = TRUE
            /\ usernet' = TRUE
            /\ bindro' = IF AutoMount
                         THEN Append(bindro, flags.cosaWorkdir
                                             \o << ",", "/var/mnt/workdir" >>)
                         ELSE bindro
            /\ bindrw' = IF AutoMount
                         THEN Append(bindrw, flags.cosaWorkdir \o << "/tmp" >>
                                             \o << ",", "/var/mnt/workdir-tmp" >>)
                         ELSE bindrw
            /\ hostname' = IF hostname = "" THEN devshellHostname ELSE hostname
            /\ Goto("direct", <<>>)
            /\ UNCHANGED << devshell, builder, inst >>
       ELSE Goto("direct", <<>>) /\ UNCHANGED << globals, builder, inst >>
    /\ UNCHANGED << flags, idx, config >>

\* CheckDirectIgnition with the path required outside direct mode.
CheckDirectIgnitionInverted ==
    /\ pc = "direct"
    /\ IF ~flags.directIgnition /\ flags.ignition = ""
       THEN Return(ErrDirectNoPath, <<>>)
       ELSE Goto("config", <<>>) /\ UNCHANGED << builder, inst >>
    /\ UNCHANGED << flags, globals, idx, config >>

\* Lines 147-149: direct ignition needs a path.
CheckDirectIgnition ==
    /\ pc = "direct"
    /\ IF flags.directIgnition /\ flags.ignition = ""
       THEN Return(ErrDirectNoPath, <<>>)
       ELSE Goto("config", <<>>) /\ UNCHANGED << builder, inst >>
    /\ UNCHANGED << flags, globals, idx, config >>

\* PrepareConfig with the source file read before direct mode is looked at.
PrepareConfigReadsFirst ==
    /\ pc = "config"
    /\ IF flags.ignition = "" /\ flags.directIgnition
       THEN Goto("fragments", <<>>) /\ UNCHANGED << config, builder, inst >>
       ELSE IF flags.ignition = ""
       THEN \/ /\ config' = [NilConfig EXCEPT !.nil = FALSE, !.source = "empty"]
               /\ Goto("fragments", << "Render" >>)
               /\ UNCHANGED << builder, inst >>
            \/ /\ Return(Wrapf(ErrRender, << "creating empty config" >>),
                         << "Render" >>)
               /\ UNCHANGED config
       ELSE \/ /\ Return(ErrReadFile, << "ReadFile" >>)
               /\ UNCHANGED config
            \/ /\ ~flags.directIgnition
               /\ Return(Wrapf(ErrRender, << "parsing ", flags.ignition >>),
                         << "ReadFile", "Render" >>)
               /\ UNCHANGED config
            \/ /\ config' = IF flags.directIgnition THEN config
                             ELSE [NilConfig EXCEPT !.nil = FALSE,
                                                    !.source = "file"]
               /\ Goto("fragments",
                       IF flags.directIgnition THEN << "ReadFile" >>
                       ELSE << "ReadFile", "Render" >>)
               /\ UNCHANGED << builder, inst >>
    /\ UNCHANGED << flags, globals, idx >>

\* PrepareConfig with the render failure of the file wrapped without the
\* file's path.
PrepareConfigParsingNoPath ==
    /\ pc = "config"
    /\ IF flags.directIgnition
       THEN Goto("fragments", <<>>) /\ UNCHANGED << config, builder, inst >>
       ELSE IF flags.ignition = ""
       THEN \/ /\ config' = [NilConfig EXCEPT !.nil = FALSE, !.source = "empty"]
               /\ Goto("fragments", << "Render" >>)
               /\ UNCHANGED << builder, inst >>
            \/ /\ Return(Wrapf(ErrRender, << "creating empty config" >>),
                         << "Render" >>)
               /\ UNCHANGED config
       ELSE \/ /\ Return(ErrReadFile, << "ReadFile" >>)
               /\ UNCHANGED config
            \/ /\ Return(Wrapf(ErrRender, << "parsing " >>),
                         << "ReadFile", "Render" >>)
               /\ UNCHANGED config
            \/ /\ config' = [NilConfig EXCEPT !.nil = FALSE, !.source = "file"]
               /\ Goto("fragments", << "ReadFile", "Render" >>)
               /\ UNCHANGED << builder, inst >>
    /\ UNCHANGED << flags, globals, idx >>

\* Lines 150-166: the base document, from the empty template or the file.
PrepareConfig ==
    /\ pc = "config"
    /\ IF flags.directIgnition
       THEN Goto("fragments", <<>>) /\ UNCHANGED << config, builder, inst >>
       ELSE IF flags.ignition = ""
       THEN \/ /\ config' = [NilConfig EXCEPT !.nil = FALSE, !.source = "empty"]
               /\ Goto("fragments", << "Render" >>)
               /\ UNCHANGED << builder, inst >>
            \/ /\ Return(Wrapf(ErrRender, << "creating empty config" >>),
                         << "Render" >>)
               /\ UNCHANGED config
       ELSE \/ /\ Return(ErrReadFile, << "ReadFile" >>)
               /\ UNCHANGED config
            \/ /\ Return(Wrapf(ErrRender, << "parsing ", flags.ignition >>),
                         << "ReadFile", "Render" >>)
               /\ UNCHANGED config
            \/ /\ config' = [NilConfig EXCEPT !.nil = FALSE, !.source = "file"]
               /\ Goto("fragments", << "ReadFile", "Render" >>)
               /\ UNCHANGED << builder, inst >>
    /\ UNCHANGED << flags, globals, idx >>

\* RenderFragments without the refusal of fragments in direct mode.
RenderFragmentsNoDirectCheck ==
    /\ pc = "fragments"
    /\ IF Len(ignitionFragments) = 0
       THEN Goto("newbuilder", <<>>) /\ UNCHANGED << config, builder, inst >>
       ELSE LET r == renderFragments(ignitionFragments, config)
            IN  /\ config' = r.conf
                /\ IF r.err # Nil
                   THEN Return(Wrapf(r.err, << "rendering fragments" >>),
                               r.calls)
                   ELSE Goto("newbuilder", r.calls)
                        /\ UNCHANGED << builder, inst >>
    /\ UNCHANGED << flags, globals, idx >>

\* Lines 168-176: the fragments, refused in direct mode.
RenderFragments ==
    /\ pc = "fragments"
    /\ IF Len(ignitionFragments) = 0
       THEN Goto("newbuilder", <<>>) /\ UNCHANGED << config, builder, inst >>
       ELSE IF flags.directIgnition
       THEN Return(ErrFragmentsDirect, <<>>) /\ UNCHANGED config
       ELSE LET r == renderFragments(ignitionFragments, config)
            IN  /\ config' = r.conf
                /\ IF r.err # Nil
                   THEN Return(Wrapf(r.err, << "rendering fragments" >>),
                               r.calls)
                   ELSE Goto("newbuilder", r.calls)
                        /\ UNCHANGED << builder, inst >>
    /\ UNCHANGED << flags, globals, idx >>

\* Lines 178-179: the builder, closed when runQemuExec returns.
NewBuilder ==
    /\ pc = "newbuilder"
    /\ builder' = [NoBuilder EXCEPT !.created = TRUE]
    /\ idx' = 1
    /\ Goto(AfterBinds("newbuilder"), << "NewBuilder" >>)
    /\ UNCHANGED << flags, globals, config, inst >>

\* BindIteration without the refusal of mounts in direct mode.
BindIterationNoDirectCheck(p, list, ro) ==
    /\ pc = p
    /\ idx <= Len(list)
    /\ LET b == parseBindOpt(list[idx])
       IN  IF b.err # Nil
           THEN Return(b.err, <<>>) /\ UNCHANGED << idx, config >>
           ELSE /\ builder' = BuilderMount9p(builder, b.src, b.dest, ro)
                /\ config' = ConfigMount9p(config, b.dest, ro)
                /\ idx' = IF idx = Len(list) THEN 1 ELSE idx + 1
                /\ Goto(IF idx = Len(list) THEN AfterBinds(p) ELSE p,
                        << "builder.Mount9p", "config.Mount9p" >>)
                /\ UNCHANGED inst
    /\ UNCHANGED << flags, globals >>

\* BindIteration with a malformed spec skipped (continue) in place of
\* returned.
BindIterationSkipsMalformed(p, list, ro) ==
    /\ pc = p
    /\ idx <= Len(list)
    /\ IF flags.directIgnition
       THEN Return(ErrMountsDirect, <<>>) /\ UNCHANGED << idx, config >>
       ELSE LET b == parseBindOpt(list[idx])
            IN  /\ builder' = IF b.err # Nil THEN builder
                              ELSE BuilderMount9p(builder, b.src, b.dest, ro)
                /\ config' = IF b.err # Nil THEN config
                             ELSE ConfigMount9p(config, b.dest, ro)
                /\ idx' = IF idx = Len(list) THEN 1 ELSE idx + 1
                /\ Goto(IF idx = Len(list) THEN AfterBinds(p) ELSE p,
                        IF b.err # Nil THEN <<>>
                        ELSE << "builder.Mount9p", "config.Mount9p" >>)
                /\ UNCHANGED inst
    /\ UNCHANGED << flags, globals >>

\* One iteration of a bind loop over list, read-only or not, at position p.
BindIteration(p, list, ro) ==
    /\ pc = p
    /\ idx <= Len(list)
    /\ IF flags.directIgnition
       THEN Return(ErrMountsDirect, <<>>) /\ UNCHANGED << idx, config >>
       ELSE LET b == parseBindOpt(list[idx])
            IN  IF b.err # Nil
                THEN Return(b.err, <<>>) /\ UNCHANGED << idx, config >>
                ELSE /\ builder' = BuilderMount9p(builder, b.src, b.dest, ro)
                     /\ config' = ConfigMount9p(config, b.dest, ro)
                     /\ idx' = IF idx = Len(list) THEN 1 ELSE idx + 1
                     /\ Goto(IF idx = Len(list) THEN AfterBinds(p) ELSE p,
                             << "builder.Mount9p", "config.Mount9p" >>)
                     /\ UNCHANGED inst
    /\ UNCHANGED << flags, globals >>

\* Lines 180-190
BindRo == BindIteration("bindro", bindro, TRUE)

\* Lines 191-201
BindRw == BindIteration("bindrw", bindrw, FALSE)

\* Lines 202-234: the boot disk and the ISO.
AddBootMedia ==
    /\ pc = "media"
    /\ \/ /\ flags.diskImage # <<>>
          /\ Return(ErrAddBootDisk, << "AddBootDisk" >>)
       \/ /\ flags.media.isoPath # ""
          /\ Return(ErrAddIso,
                    (IF flags.diskImage # <<>> THEN << "AddBootDisk" >>
                     ELSE <<>>) \o << "AddIso" >>)
       \/ /\ builder' = [builder EXCEPT !.bootDisk = flags.diskImage,
                                        !.iso = flags.media.isoPath]
          /\ Goto("assemble",
                  (IF flags.diskImage # <<>> THEN << "AddBootDisk" >>
                   ELSE <<>>)
                  \o (IF flags.media.isoPath # "" THEN << "AddIso" >> ELSE <<>>))
          /\ UNCHANGED inst
    /\ UNCHANGED << flags, globals, idx, config >>

\* Lines 235-257: hostname, extra disks, processors, networking, console.
Assemble ==
    /\ pc = "assemble"
    /\ \/ \E k \in 1..flags.media.addDisks :
             Return(Wrapf(ErrAddDisk, << "adding additional disk" >>),
                    [i \in 1..k |-> "AddDisk"])
       \/ /\ builder' =
                [builder EXCEPT
                    !.Hostname = hostname,
                    !.disks = flags.media.addDisks,
                    !.Processors = IF cpuCountHost THEN -1 ELSE @,
                    !.usermodeNetworking = usernet,
                    !.forwards =
                        IF usernet
                        THEN << [ Service |-> "ssh", HostPort |-> 0,
                                  GuestPort |-> 22 ] >>
                        ELSE @,
                    !.InheritConsole = TRUE,
                    !.ConsoleFile = flags.consoleFile]
          /\ Goto("mode",
                  [i \in 1..flags.media.addDisks |-> "AddDisk"]
                  \o (IF usernet THEN << "EnableUsermodeNetworking" >>
                      ELSE <<>>))
          /\ UNCHANGED inst
    /\ UNCHANGED << flags, globals, idx, config >>

\* SelectMode with every devshell run, console or not, handed to
\* runDevShellSSH.
SelectModeAlwaysSSH ==
    /\ pc = "mode"
    /\ IF devshell
       THEN Goto("devshellssh", << "runDevShellSSH" >>)
            /\ UNCHANGED << builder, inst >>
       ELSE IF ~config.nil
       THEN IF flags.directIgnition
            THEN Return(ErrFragmentsMountsDirect, <<>>)
            ELSE /\ builder' = [builder EXCEPT !.config = config]
                 /\ Goto("exec", << "SetConfig" >>)
                 /\ UNCHANGED inst
       ELSE /\ builder' = IF flags.directIgnition
                          THEN [builder EXCEPT !.ConfigFile = flags.ignition]
                          ELSE builder
            /\ Goto("exec", <<>>)
            /\ UNCHANGED inst
    /\ UNCHANGED << flags, globals, idx, config >>

\* SelectMode with the ignition path given to the builder whenever there is
\* one, direct mode or not.
SelectModeAlwaysConfigFile ==
    /\ pc = "mode"
    /\ IF devshell /\ ~flags.devshellConsole
       THEN Goto("devshellssh", << "runDevShellSSH" >>)
            /\ UNCHANGED << builder, inst >>
       ELSE IF ~config.nil
       THEN IF flags.directIgnition
            THEN Return(ErrFragmentsMountsDirect, <<>>)
            ELSE /\ builder' = [builder EXCEPT !.config = config,
                                               !.ConfigFile = flags.ignition]
                 /\ Goto("exec", << "SetConfig" >>)
                 /\ UNCHANGED inst
       ELSE /\ builder' = IF flags.directIgnition
                          THEN [builder EXCEPT !.ConfigFile = flags.ignition]
                          ELSE builder
            /\ Goto("exec", <<>>)
            /\ UNCHANGED inst
    /\ UNCHANGED << flags, globals, idx, config >>

\* Lines 259-269: the SSH devshell takes the builder and the document;
\* otherwise the builder is given the document or the raw path.
SelectMode ==
    /\ pc = "mode"
    /\ IF devshell /\ ~flags.devshellConsole
       THEN Goto("devshellssh", << "runDevShellSSH" >>)
            /\ UNCHANGED << builder, inst >>
       ELSE IF ~config.nil
       THEN IF flags.directIgnition
            THEN Return(ErrFragmentsMountsDirect, <<>>)
            ELSE /\ builder' = [builder EXCEPT !.config = config]
                 /\ Goto("exec", << "SetConfig" >>)
                 /\ UNCHANGED inst
       ELSE /\ builder' = IF flags.directIgnition
                          THEN [builder EXCEPT !.ConfigFile = flags.ignition]
                          ELSE builder
            /\ Goto("exec", <<>>)
            /\ UNCHANGED inst
    /\ UNCHANGED << flags, globals, idx, config >>

\* Line 260: what runDevShellSSH returns is what runQemuExec returns.
RunDevShellSSH ==
    /\ pc = "devshellssh"
    /\ \E e \in WaitErrors : Return(e, <<>>)
    /\ UNCHANGED << flags, globals, idx, config >>

\* Lines 271-275: the launch; the instance is destroyed at return.
Exec ==
    /\ pc = "exec"
    /\ \/ Return(ErrExec, << "Exec" >>)
       \/ /\ inst' = [inst EXCEPT !.launched = TRUE]
          /\ Goto(IF flags.propagateInitramfsFailure THEN "waitall"
                  ELSE "wait", << "Exec" >>)
          /\ UNCHANGED builder
    /\ UNCHANGED << flags, globals, idx, config >>

\* WaitAll with the error of inst.WaitAll(ctx) dropped.
WaitAllDropsError ==
    /\ pc = "waitall"
    /\ \E e \in WaitErrors :
          ReturnFrom(Nil, << "WaitAll" >>,
                     [inst EXCEPT !.waited = "WaitAll", !.reported = e])
    /\ UNCHANGED << flags, globals, idx, config >>

\* Lines 277-283: wait for every component of the instance.
WaitAll ==
    /\ pc = "waitall"
    /\ \E e \in WaitErrors :
          LET i == [inst EXCEPT !.waited = "WaitAll", !.reported = e]
          IN  IF e # Nil THEN ReturnFrom(e, << "WaitAll" >>, i)
              ELSE ReturnFrom(Nil, << "WaitAll" >>, i)
    /\ UNCHANGED << flags, globals, idx, config >>

\* Line 284: wait for the instance.
Wait ==
    /\ pc = "wait"
    /\ \E e \in WaitErrors :
          ReturnFrom(e, << "Wait" >>,
                     [inst EXCEPT !.waited = "Wait", !.reported = e])
    /\ UNCHANGED << flags, globals, idx, config >>

Next ==
    \/ CheckDevshellConsole
    \/ CheckDevshell
    \/ CheckDirectIgnition
    \/ PrepareConfig
    \/ RenderFragments
    \/ NewBuilder
    \/ BindRo
    \/ BindRw
    \/ AddBootMedia
    \/ Assemble
    \/ SelectMode
    \/ RunDevShellSSH
    \/ Exec
    \/ WaitAll
    \/ Wait

Spec == Init /\ [][Next]_vars

\* Runs that differ in one bind spec: every string of at most MaxSpecLen
\* characters over a, b and the comma, given as the only --bind-ro or the
\* only --bind-rw entry, in each of the modes.
BindStrings == SeqsUpTo({ "a", "b", "," }, MaxSpecLen)

BindFlagSets ==
    [ devshell : BOOLEAN,
      devshellConsole : BOOLEAN,
      consoleFile : { "" },
      directIgnition : { FALSE },
      ignition : { "" },
      propagateInitramfsFailure : BOOLEAN,
      ignitionFragments : { <<>> },
      binds : { << << b >>, <<>> >> : b \in BindStrings }
              \cup { << <<>>, << b >> >> : b \in BindStrings },
      usernet : { FALSE },
      cpuCountHost : { FALSE },
      hostname : { "" },
      diskImage : { << "d", "/", "f", "c", "o", "s" >> },
      media : { [ isoPath |-> "", addDisks |-> 0 ] },
      kolaPlatform : { "qemu" },
      cosaWorkdir : { << "w" >> } ]

SpecBinds == InitWith(BindFlagSets) /\ [][Next]_vars

\* Runs that differ in the --add-ignition list: every list of at most
\* MaxFragList names, with and without an ignition file, in each of the
\* modes.
FragmentFlagSets ==
    [ devshell : BOOLEAN,
      devshellConsole : BOOLEAN,
      consoleFile : { "" },
      directIgnition : { FALSE },
      ignition : IgnitionPaths,
      propagateInitramfsFailure : BOOLEAN,
      ignitionFragments : SeqsUpTo(FragmentNames, MaxFragList),
      binds : { << <<>>, <<>> >> },
      usernet : { FALSE },
      cpuCountHost : { FALSE },
      hostname : { "" },
      diskImage : { << "d", "/", "f", "c", "o", "s" >> },
      media : { [ isoPath |-> "", addDisks |-> 0 ] },
      kolaPlatform : { "qemu" },
      cosaWorkdir : { << "w" >> } ]

SpecFragments == InitWith(FragmentFlagSets) /\ [][Next]_vars

\* Runs that differ in the options the devshell defaults replace:
\* --usernet, --auto-cpus, --hostname and the fragments.
DevshellFlagSets ==
    [ devshell : BOOLEAN,
      devshellConsole : BOOLEAN,
      consoleFile : { "" },
      directIgnition : BOOLEAN,
      ignition : IgnitionPaths,
      propagateInitramfsFailure : BOOLEAN,
      ignitionFragments : SeqsUpTo(FragmentNames, MaxFrags),
      binds : { << <<>>, <<>> >> },
      usernet : BOOLEAN,
      cpuCountHost : BOOLEAN,
      hostname : Hostnames,
      diskImage : DiskImages,
      media : { [ isoPath |-> "", addDisks |-> 0 ] },
      kolaPlatform : KolaPlatforms,
      cosaWorkdir : { << "w" >> } ]

SpecDevshell == InitWith(DevshellFlagSets) /\ [][Next]_vars

\* Disk images by file name: rhcos images, at the top and in a directory,
\* and other images, one of them in a directory named rhcos.
RhcosImages ==
    { << "r", "h", "c", "o", "s", "1" >>,
      << "d", "/", "r", "h", "c", "o", "s" >> }

OtherImages ==
    { << "d", "/", "f", "c", "o", "s" >>,
      << "r", "h", "c", "o", "s", "/", "f" >> }

\* Working directories: unset, a plain one, one with a comma in its name.
AutoMountWorkdirs == { <<>>, << "w" >>, << "w", ",", "x" >> }

\* Runs that differ in what decides the automatic bindings of devshell
\* mode: the mode, the disk image, the working directory, the user's binds.
AutoMountFlagSets ==
    [ devshell : BOOLEAN,
      devshellConsole : BOOLEAN,
      consoleFile : { "" },
      directIgnition : { FALSE },
      ignition : { "" },
      propagateInitramfsFailure : BOOLEAN,
      ignitionFragments : { <<>> },
      binds : BindLists,
      usernet : { FALSE },
      cpuCountHost : { FALSE },
      hostname : { "" },
      diskImage : { <<>> } \cup RhcosImages \cup OtherImages,
      media : { [ isoPath |-> "", addDisks |-> 0 ] },
      kolaPlatform : KolaPlatforms,
      cosaWorkdir : AutoMountWorkdirs ]

SpecAutoMount == InitWith(AutoMountFlagSets) /\ [][Next]_vars

\* ------------------------------------------------------ reading the state

Called(c) == \E i \in 1..Len(calls) : calls[i] = c

Count(c) == Cardinality({ i \in 1..Len(calls) : calls[i] = c })

\* The first position of call c in the log, 0 when it was not made.
FirstCall(c) == IndexOf(calls, c, 1)

Done == pc = "done"

\* The launch: builder.Exec(), or the builder handed to runDevShellSSH.
Launched == Called("Exec") \/ Called("runDevShellSSH")

LaunchIndex ==
    IF Called("Exec") THEN FirstCall("Exec") ELSE FirstCall("runDevShellSSH")

\* The errors of the option checks.
OptionConflicts ==
    { ErrConsoleDevshell, ErrDevshellDirect, ErrNoDiskImage, ErrDirectNoPath,
      ErrFragmentsDirect, ErrMountsDirect, ErrFragmentsMountsDirect }

UnknownFragmentErrors ==
    { Wrapf(ErrUnknownFragment(f), << "rendering fragments" >>) :
        f \in FragmentNames }

ConfigErrors ==
    { ErrReadFile, Wrapf(ErrRender, << "creating empty config" >>) }
    \cup { Wrapf(ErrRender, << "parsing ", p >>) : p \in IgnitionPaths }

\* Every error of a step that comes before the launch.
PreparationErrors ==
    OptionConflicts \cup UnknownFragmentErrors \cup ConfigErrors
    \cup { ErrMalformedBind }

\* The calls that prepare the document and resolve the mounts.
PreparationCalls ==
    { "ReadFile", "Render", "AddAutoLogin", "builder.Mount9p",
      "config.Mount9p" }

\* ------------------------------------------------------------------ claims

\* C1: an instance that builder.Exec() returned is destroyed exactly once
\* by the time runQemuExec has returned, whatever the wait reported, and is
\* not destroyed while the run is still going; without a launched instance
\* (Exec not reached, or failed) Destroy is never called.
C1_DestroyedOncePerLaunch ==
    /\ (Done /\ inst.launched) =>
          /\ inst.destroyed = 1
          /\ Count("Destroy") = 1
          /\ FirstCall("Destroy") > FirstCall("Exec")
    /\ (~Done \/ ~inst.launched) =>
          /\ inst.destroyed = 0
          /\ ~Called("Destroy")
    /\ (Done /\ ret = ErrExec) => ~inst.launched

\* A run whose WaitAll reported a failure has returned, instance destroyed.
C1_Witness ==
    /\ Done
    /\ inst.launched
    /\ inst.waited = "WaitAll"
    /\ ret # Nil
    /\ inst.destroyed = 1

\* C2: at the launch every option check has passed, the document has been
\* read and rendered (unless direct), every fragment has been applied and
\* every bind spec parsed and declared; no preparation call follows the
\* launch, and a run that returned an error of one of these steps never
\* launched.
C2_LaunchAfterPreparation ==
    /\ Launched =>
          /\ ~(flags.devshellConsole /\ flags.consoleFile # "")
          /\ ~(devshell /\ flags.directIgnition)
          /\ ~(devshell /\ flags.diskImage = <<>>
                         /\ flags.kolaPlatform = "qemu")
          /\ ~(flags.directIgnition /\ flags.ignition = "")
          /\ ~(flags.directIgnition /\ Len(ignitionFragments) > 0)
          /\ ~(flags.directIgnition /\ Len(bindro) + Len(bindrw) > 0)
          /\ ~flags.directIgnition =>
                /\ Called("Render")
                /\ flags.ignition # "" => Called("ReadFile")
                /\ ~config.nil
          /\ \A i \in 1..Len(ignitionFragments) :
                ignitionFragments[i] = "autologin"
          /\ Len(config.injections) = Len(ignitionFragments)
          /\ \A i \in 1..Len(bindro) : IndexOf(bindro[i], ",", 1) > 0
          /\ \A i \in 1..Len(bindrw) : IndexOf(bindrw[i], ",", 1) > 0
          /\ Len(builder.mounts) = Len(bindro) + Len(bindrw)
          /\ Len(config.mounts) = Len(bindro) + Len(bindrw)
          /\ \A i \in 1..Len(calls) :
                calls[i] \in PreparationCalls => i < LaunchIndex
          /\ ret \notin PreparationErrors
    /\ (Done /\ ret \in PreparationErrors) => ~Launched /\ ~inst.launched

\* A launch by Exec of a machine with a file-based document, a fragment
\* and mounts.
C2_Witness ==
    /\ inst.launched
    /\ Called("ReadFile")
    /\ Len(config.injections) > 0
    /\ Len(builder.mounts) > 1

\* The errors the claim is about: option conflicts, a malformed bind spec,
\* an unknown fragment.
EarlyErrors ==
    OptionConflicts \cup UnknownFragmentErrors \cup { ErrMalformedBind }

\* Nothing has been touched: only the deferred cancel() has run.
NothingTouched ==
    /\ calls = << "cancel" >>
    /\ config = NilConfig
    /\ builder = NoBuilder
    /\ inst = NoInstance

\* C3 as stated: a run that ends with an option conflict, a malformed bind
\* spec or an unknown fragment has read no file, rendered no document,
\* created no builder and made no Mount9p or AddAutoLogin call.
C3_Original ==
    (Done /\ ret \in EarlyErrors) =>
        /\ ~Called("ReadFile")
        /\ ~Called("Render")
        /\ ~Called("NewBuilder")
        /\ ~builder.created
        /\ ~Called("builder.Mount9p")
        /\ ~Called("config.Mount9p")
        /\ ~Called("AddAutoLogin")

\* C3, amended: such a run never launches.  The option conflicts found
\* before the builder exists (all but mounts with direct ignition) touch
\* nothing.  An unknown fragment is reported once the document is rendered
\* and the recognised fragments before it applied, before the builder
\* exists.  A malformed bind spec and mounts with direct ignition are
\* reported once the builder exists, and the deferred Close() releases it;
\* mounts with direct ignition has read and rendered nothing.
C3_EarlyErrorsAmended ==
    (Done /\ ret \in EarlyErrors) =>
        /\ ~Launched
        /\ ~inst.launched
        /\ ret \in OptionConflicts \ { ErrMountsDirect } => NothingTouched
        /\ ret \in UnknownFragmentErrors =>
              /\ ~config.nil
              /\ Called("Render")
              /\ ~builder.created
              /\ ~Called("NewBuilder")
              /\ config.mounts = <<>>
        /\ ret \in { ErrMountsDirect, ErrMalformedBind } =>
              /\ builder.created
              /\ builder.closed = 1
              /\ calls[Len(calls) - 1] = "Close"
        /\ ret = ErrMountsDirect =>
              /\ config = NilConfig
              /\ builder.mounts = <<>>
              /\ calls = << "NewBuilder", "Close", "cancel" >>
        /\ ret = ErrMalformedBind => ~config.nil /\ Called("Render")

\* A malformed --bind-rw spec found after the document was read, a fragment
\* applied and a read-only binding declared.
C3_Witness ==
    /\ Done
    /\ ret = ErrMalformedBind
    /\ Called("ReadFile")
    /\ Called("AddAutoLogin")
    /\ Len(builder.mounts) > 0
    /\ builder.closed = 1

\* C4: once launched, runQemuExec returns what the wait it made reported,
\* nil exactly when the instance reported nil, with Destroy run after the
\* wait whatever it reported.
C4_ReturnsWaitResult ==
    (Done /\ inst.launched) =>
        /\ inst.waited \in { "Wait", "WaitAll" }
        /\ ret = inst.reported
        /\ (ret = Nil) = (inst.reported = Nil)
        /\ inst.destroyed = 1
        /\ FirstCall(inst.waited) < FirstCall("Destroy")

\* A supervised run that returned the initramfs failure, instance destroyed.
C4_Witness ==
    /\ Done
    /\ inst.waited = "WaitAll"
    /\ inst.reported = << "initramfs failure" >>
    /\ ret = << "initramfs failure" >>
    /\ inst.destroyed = 1

\* The calls that drive an execution mode.
ModeCalls == { "runDevShellSSH", "WaitAll", "Wait" }

ModeCallCount ==
    Cardinality({ i \in 1..Len(calls) : calls[i] \in ModeCalls })

\* C5 as stated: devshell-console drives inst.Wait() whatever
\* propagate-initramfs-failure is.
ModeAsStated ==
    IF flags.devshellConsole THEN "Wait"
    ELSE IF flags.devshell THEN "runDevShellSSH"
    ELSE IF flags.propagateInitramfsFailure THEN "WaitAll"
    ELSE "Wait"

C5_Original ==
    /\ \A i \in 1..Len(calls) : calls[i] \in ModeCalls => calls[i] = ModeAsStated
    /\ ModeCallCount <= 1

\* C5, amended: the mode is a function of the three flags, in which
\* devshell-console waits as a non-devshell run does: inst.WaitAll(ctx)
\* when propagate-initramfs-failure is set and inst.Wait() when it is not.
ModeOfFlags ==
    IF flags.devshell /\ ~flags.devshellConsole THEN "runDevShellSSH"
    ELSE IF flags.propagateInitramfsFailure THEN "WaitAll"
    ELSE "Wait"

\* At most one mode is driven in a run, the one the flags select; a run that
\* launched an instance or reached runDevShellSSH has driven exactly one by
\* the time it returns.
C5_ModeAmended ==
    /\ \A i \in 1..Len(calls) : calls[i] \in ModeCalls => calls[i] = ModeOfFlags
    /\ ModeCallCount <= 1
    /\ (Done /\ inst.launched) => ModeCallCount = 1
    /\ pc = "devshellssh" => ModeCallCount = 1 /\ ModeOfFlags = "runDevShellSSH"
    /\ pc = "waitall" => ModeOfFlags = "WaitAll"
    /\ pc = "wait" => ModeOfFlags = "Wait"

\* A devshell-console run with propagate-initramfs-failure that waited in
\* WaitAll.
C5_Witness ==
    /\ Done
    /\ flags.devshellConsole
    /\ flags.propagateInitramfsFailure
    /\ inst.waited = "WaitAll"

\* The errors returned before the configuration-preparation step is over.
BeforeConfigErrors ==
    { ErrConsoleDevshell, ErrDevshellDirect, ErrNoDiskImage, ErrDirectNoPath }
    \cup ConfigErrors

\* The configuration-preparation step (lines 150-166) is over, without error.
PastConfig ==
    \/ pc \in { "fragments", "newbuilder", "bindro", "bindrw", "media",
                "assemble", "mode", "devshellssh", "exec", "wait", "waitall" }
    \/ Done /\ ret \notin BeforeConfigErrors

\* C6: once the document is prepared, it exists exactly when direct
\* ignition is off; no fragment is injected into and no mount declared to a
\* document that does not exist.
C6_ConfigIffNotDirect ==
    /\ PastConfig => (config.nil = flags.directIgnition)
    /\ config.nil => config.injections = <<>> /\ config.mounts = <<>>
    /\ (Called("AddAutoLogin") \/ Called("config.Mount9p")) => ~config.nil

\* A direct-ignition run waiting on its instance, with no document.
C6_Witness ==
    /\ pc = "wait"
    /\ flags.directIgnition
    /\ config.nil
    /\ flags.ignition # ""

\* C7: when builder.Exec() is reached and ever after, the builder holds the
\* rendered document and no ConfigFile when direct ignition is off, and the
\* non-empty ignition path as ConfigFile and no document when it is on.
\* A builder handed to runDevShellSSH comes with the document as the other
\* argument and without ConfigFile, direct ignition being off.
C7_ExactlyOneConfigSource ==
    /\ Called("runDevShellSSH") =>
        /\ ~flags.directIgnition
        /\ ~config.nil
        /\ builder.ConfigFile = ""
    /\ (pc = "exec" \/ Called("Exec")) =>
        /\ ~flags.directIgnition =>
              /\ Count("SetConfig") = 1
              /\ ~builder.config.nil
              /\ builder.config = config
              /\ builder.ConfigFile = ""
        /\ flags.directIgnition =>
              /\ ~Called("SetConfig")
              /\ builder.config.nil
              /\ builder.ConfigFile = flags.ignition
              /\ builder.ConfigFile # ""
        /\ builder.config.nil # (builder.ConfigFile = "")

\* A launched direct-ignition machine and a launched machine with a
\* document are both reached; this one is the direct one.
C7_Witness ==
    /\ inst.launched
    /\ flags.directIgnition
    /\ builder.ConfigFile = "config.ign"
    /\ builder.config.nil

\* The bind specs of the two lists in declaration order, with their access
\* mode: all of bind-ro, then all of bind-rw.
BindOptions ==
    [ i \in 1..Len(bindro) |-> << bindro[i], TRUE >> ]
    \o [ i \in 1..Len(bindrw) |-> << bindrw[i], FALSE >> ]

AtLaunchOrReturn == pc \in { "exec", "devshellssh", "wait", "waitall", "done" }

\* C8: at the launch point and at return the guest paths and access modes
\* declared to the builder are those declared to the document, in the same
\* order; the k-th declaration is the k-th entry of bind-ro followed by
\* bind-rw, split at its first comma, with the access mode of its list; at
\* the launch point every entry has been declared.
C8_MountsAgree ==
    AtLaunchOrReturn =>
        /\ config.mounts =
              [ i \in 1..Len(builder.mounts) |->
                  << builder.mounts[i][2], builder.mounts[i][3] >> ]
        /\ Len(builder.mounts) <= Len(BindOptions)
        /\ \A i \in 1..Len(builder.mounts) :
              LET spec == BindOptions[i][1]
                  k == IndexOf(spec, ",", 1)
              IN  /\ k > 0
                  /\ builder.mounts[i] =
                        << SubSeq(spec, 1, k - 1),
                           SubSeq(spec, k + 1, Len(spec)),
                           BindOptions[i][2] >>
        /\ \A i, j \in 1..Len(builder.mounts) :
              (i < j /\ builder.mounts[j][3]) => builder.mounts[i][3]
        /\ (Launched \/ pc = "exec") => Len(builder.mounts) = Len(BindOptions)

\* A launched machine with the user's read-only binding, the automatic
\* read-only one and then a read-write one.
C8_Witness ==
    /\ inst.launched
    /\ Len(config.mounts) >= 3
    /\ config.mounts[1][2]
    /\ ~config.mounts[Len(config.mounts)][2]
    /\ Len(bindro) = 2

\* C9: a run with devshell-console and a console-capture file never gets
\* past the first check: it returns that conflict having read no file,
\* rendered no document, created no builder and launched nothing.
C9_ConsoleFileRejectedFirst ==
    (flags.devshellConsole /\ flags.consoleFile # "") =>
        /\ pc \in { "start", "done" }
        /\ Done => ret = ErrConsoleDevshell /\ NothingTouched
        /\ ~Done => calls = <<>>
        /\ config = NilConfig
        /\ builder = NoBuilder
        /\ inst = NoInstance

\* The conflict returned to a run that also asked for direct ignition,
\* fragments and binds.
C9_Witness ==
    /\ Done
    /\ ret = ErrConsoleDevshell
    /\ flags.directIgnition
    /\ Len(flags.ignitionFragments) > 0
    /\ Len(flags.binds[1]) > 0

\* C10: a run with direct ignition and no ignition path never gets past the
\* option checks: it returns an error and launches nothing, whatever the
\* other options are.
C10_DirectNeedsPath ==
    (flags.directIgnition /\ flags.ignition = "") =>
        /\ pc \in { "start", "devshell", "direct", "done" }
        /\ Done =>
              /\ ret # Nil
              /\ ret \in { ErrConsoleDevshell, ErrDevshellDirect,
                           ErrDirectNoPath }
        /\ ~Launched
        /\ ~inst.launched

\* The missing-path error returned to a run that also gave fragments and
\* binds.
C10_Witness ==
    /\ Done
    /\ ret = ErrDirectNoPath
    /\ flags.directIgnition
    /\ flags.ignition = ""
    /\ Len(flags.ignitionFragments) > 0
    /\ Len(flags.binds[2]) > 0

\* C11: in a direct-ignition run no document is ever produced, no fragment
\* is injected and no mount is declared to the builder or to a document;
\* when a fragment or a bind spec was supplied the run launches nothing and
\* what it returns is an option conflict.
C11_DirectAppliesNothing ==
    flags.directIgnition =>
        /\ config = NilConfig
        /\ builder.config = NilConfig
        /\ builder.mounts = <<>>
        /\ ~Called("Render")
        /\ ~Called("AddAutoLogin")
        /\ ~Called("builder.Mount9p")
        /\ ~Called("config.Mount9p")
        /\ ~Called("SetConfig")
        /\ (Len(flags.ignitionFragments) + Len(flags.binds[1])
              + Len(flags.binds[2]) > 0) =>
              /\ ~Launched
              /\ ~inst.launched
              /\ pc \notin { "media", "assemble", "mode", "devshellssh",
                             "exec", "wait", "waitall" }
              /\ Done => ret \in OptionConflicts

\* A direct-ignition run with a path and a bind spec, refused at the bind
\* loop.
C11_Witness ==
    /\ Done
    /\ flags.directIgnition
    /\ flags.ignition # ""
    /\ Len(flags.binds[1]) + Len(flags.binds[2]) > 0
    /\ ret = ErrMountsDirect

CommaCount(s) == Cardinality({ i \in 1..Len(s) : s[i] = "," })

\* C12 as stated: a bind spec is accepted only with exactly one comma.
C12_Original ==
    \A i \in 1..Len(builder.mounts) : CommaCount(BindOptions[i][1]) = 1

\* C12, amended: parseBindOpt accepts a bind spec exactly when it holds at
\* least one comma; SRC is the text before the first comma and DEST all the
\* text after it, further commas included; the malformed-bind error is
\* returned exactly for a spec without a comma.
C12_SplitAtFirstComma ==
    /\ \A i \in 1..Len(builder.mounts) :
          LET spec == BindOptions[i][1]
              m == builder.mounts[i]
          IN  /\ m[1] \o << "," >> \o m[2] = spec
              /\ CommaCount(m[1]) = 0
              /\ CommaCount(m[2]) = CommaCount(spec) - 1
    /\ (Done /\ ret = ErrMalformedBind) =>
          /\ Len(builder.mounts) < Len(BindOptions)
          /\ CommaCount(BindOptions[Len(builder.mounts) + 1][1]) = 0
    /\ Launched =>
          /\ Len(builder.mounts) = Len(BindOptions)
          /\ \A i \in 1..Len(BindOptions) : CommaCount(BindOptions[i][1]) > 0

\* A launched machine whose binding came from a spec with two commas, DEST
\* holding the second.
C12_Witness ==
    /\ inst.launched
    /\ Len(builder.mounts) > 0
    /\ CommaCount(BindOptions[1][1]) = 2
    /\ CommaCount(builder.mounts[1][2]) = 1
    /\ builder.mounts[1][1] # <<>>

\* The position in BindOptions of the first bind spec without a comma, 0
\* when every spec has one.
RECURSIVE FirstMalformedFrom(_)
FirstMalformedFrom(i) ==
    IF i > Len(BindOptions) THEN 0
    ELSE IF CommaCount(BindOptions[i][1]) = 0 THEN i
    ELSE FirstMalformedFrom(i + 1)

FirstMalformed == FirstMalformedFrom(1)

\* C13: a run with a bind spec without a comma never launches; no binding
\* is declared from that spec or from any spec after it; the run returns
\* an error, which is the malformed-bind error once the bind loops have
\* come to that spec (the builder exists and direct ignition is off) and
\* the error of an earlier step otherwise.
C13_MalformedBindRejected ==
    FirstMalformed > 0 =>
        /\ ~Launched
        /\ ~inst.launched
        /\ Len(builder.mounts) < FirstMalformed
        /\ Len(config.mounts) < FirstMalformed
        /\ pc \notin { "media", "assemble", "mode", "devshellssh", "exec",
                       "wait", "waitall" }
        /\ Done => ret \in PreparationErrors
        /\ (Done /\ builder.created /\ ~flags.directIgnition) =>
              /\ ret = ErrMalformedBind
              /\ Len(builder.mounts) = FirstMalformed - 1

\* A malformed --bind-rw spec refused after the automatic read-only binding
\* was declared.
C13_Witness ==
    /\ Done
    /\ ret = ErrMalformedBind
    /\ FirstMalformed = 2
    /\ Len(builder.mounts) = 1

\* The position in ignitionFragments of the first name that is not
\* recognised, 0 when every name is.
RECURSIVE FirstUnknownFrom(_)
FirstUnknownFrom(i) ==
    IF i > Len(ignitionFragments) THEN 0
    ELSE IF ignitionFragments[i] # "autologin" THEN i
    ELSE FirstUnknownFrom(i + 1)

FirstUnknown == FirstUnknownFrom(1)

\* The fragment step (lines 168-176) is over.
PastFragments == PastConfig /\ pc # "fragments"

\* C14: outside direct mode, once the fragment step is over: with every
\* name recognised one injection per entry has been made and no
\* unknown-fragment error is returned; with an unrecognised name the run has
\* returned the unknown-fragment error naming the first such name, having
\* made exactly the injections of the entries before it, created no builder
\* and launched nothing.  The unknown-fragment error is returned in no other
\* case.
C14_FragmentsInOrder ==
    /\ (PastFragments /\ ~flags.directIgnition /\ FirstUnknown = 0) =>
          /\ config.injections =
                [ i \in 1..Len(ignitionFragments) |-> "autologin" ]
          /\ Count("AddAutoLogin") = Len(ignitionFragments)
          /\ ret \notin UnknownFragmentErrors
    /\ (PastFragments /\ ~flags.directIgnition /\ FirstUnknown > 0) =>
          /\ Done
          /\ ret = Wrapf(ErrUnknownFragment(ignitionFragments[FirstUnknown]),
                         << "rendering fragments" >>)
          /\ config.injections =
                [ i \in 1..(FirstUnknown - 1) |-> "autologin" ]
          /\ Count("AddAutoLogin") = FirstUnknown - 1
          /\ ~builder.created
          /\ ~Launched
    /\ ~PastFragments => config.injections = <<>>
    /\ ret \in UnknownFragmentErrors => FirstUnknown > 0

\* An unknown name refused after two recognised ones were injected.
C14_Witness ==
    /\ Done
    /\ ret \in UnknownFragmentErrors
    /\ FirstUnknown = 3
    /\ Len(config.injections) = 2

\* Devshell mode is active: --devshell or --devshell-console was given.
DevshellActive == flags.devshell \/ flags.devshellConsole

\* The machine is assembled: lines 235-257 have run.
Assembled == builder.InheritConsole

SSHForward == << [ Service |-> "ssh", HostPort |-> 0, GuestPort |-> 22 ] >>

\* C15: an assembled devshell machine has user-mode networking with guest
\* port 22 forwarded on host port 0 and processor count -1 whatever
\* --usernet and --auto-cpus were, "autologin" after the user's fragments,
\* all of them applied to the document, and the devshell hostname exactly
\* when no hostname was given.  Outside devshell mode the option variables
\* stay as given and the machine is assembled from them as they are.
C15_DevshellDefaults ==
    /\ (Assembled /\ DevshellActive) =>
          /\ builder.usermodeNetworking
          /\ builder.forwards = SSHForward
          /\ Count("EnableUsermodeNetworking") = 1
          /\ builder.Processors = -1
          /\ ignitionFragments = Append(flags.ignitionFragments, "autologin")
          /\ config.injections =
                [ i \in 1..(Len(flags.ignitionFragments) + 1) |-> "autologin" ]
          /\ builder.Hostname = IF flags.hostname = "" THEN devshellHostname
                                ELSE flags.hostname
    /\ ~DevshellActive =>
          /\ usernet = flags.usernet
          /\ cpuCountHost = flags.cpuCountHost
          /\ hostname = flags.hostname
          /\ ignitionFragments = flags.ignitionFragments
          /\ bindro = flags.binds[1]
          /\ bindrw = flags.binds[2]
    /\ (Assembled /\ ~DevshellActive) =>
          /\ builder.usermodeNetworking = flags.usernet
          /\ builder.forwards = IF flags.usernet THEN SSHForward ELSE <<>>
          /\ builder.Processors = IF flags.cpuCountHost THEN -1 ELSE 0
          /\ builder.Hostname = flags.hostname
          /\ Len(config.injections) =
                IF flags.directIgnition THEN 0 ELSE Len(flags.ignitionFragments)

\* A devshell machine assembled from --hostname myhost without --usernet or
\* --auto-cpus, after a user fragment.
C15_Witness ==
    /\ Assembled
    /\ DevshellActive
    /\ ~flags.usernet
    /\ ~flags.cpuCountHost
    /\ flags.hostname = "myhost"
    /\ builder.Hostname = "myhost"
    /\ builder.Processors = -1
    /\ Len(config.injections) = 2

\* Both bind loops are over, without error.
PastBinds ==
    \/ pc \in { "media", "assemble", "mode", "devshellssh", "exec", "wait",
                "waitall" }
    \/ Done /\ ret \notin PreparationErrors

\* The condition of the automatic bindings, read off the options: devshell
\* mode, a working directory, an image whose file name is not an rhcos one.
AutoMountExpected ==
    /\ DevshellActive
    /\ flags.cosaWorkdir # <<>>
    /\ flags.diskImage \notin RhcosImages

\* The two automatic bindings: the working directory read-only at
\* /var/mnt/workdir, its tmp directory read-write at /var/mnt/workdir-tmp.
AutoReadOnly == << flags.cosaWorkdir, << "/var/mnt/workdir" >>, TRUE >>

AutoReadWrite ==
    << flags.cosaWorkdir \o << "/tmp" >>, << "/var/mnt/workdir-tmp" >>, FALSE >>

\* The bindings declared to the builder are the user's, with the two
\* automatic ones after the user's read-only and read-write ones when
\* expected.
AutoMountsAsClaimed ==
    LET nro == Len(flags.binds[1])
        nrw == Len(flags.binds[2])
    IN  /\ AutoMountExpected =>
              /\ Len(builder.mounts) = nro + nrw + 2
              /\ builder.mounts[nro + 1] = AutoReadOnly
              /\ builder.mounts[nro + nrw + 2] = AutoReadWrite
              /\ \A i \in 1..nro : builder.mounts[i][3]
              /\ \A i \in 1..nrw : ~builder.mounts[nro + 1 + i][3]
        /\ ~AutoMountExpected =>
              /\ Len(builder.mounts) = nro + nrw
              /\ bindro = flags.binds[1]
              /\ bindrw = flags.binds[2]

\* C16: once the bind loops are over the two automatic bindings have been
\* declared, after the user's, exactly in devshell mode with a working
\* directory and an image that is not an rhcos one; with well-formed user
\* bindings the bind loops never fail, working directory or none.
C16_AutoMounts ==
    /\ PastBinds => AutoMountsAsClaimed
    /\ (Done /\ builder.created /\ FirstMalformed = 0) => PastBinds

\* C16 for the working directories without a comma.
C16_AutoMountsCommaFree ==
    CommaCount(flags.cosaWorkdir) = 0 => C16_AutoMounts

\* A devshell machine with a user binding in each list followed by the
\* automatic one.
C16_Witness ==
    /\ inst.launched
    /\ AutoMountExpected
    /\ Len(builder.mounts) = 3
    /\ builder.mounts[Len(builder.mounts)] = AutoReadWrite

\* A devshell machine whose working directory has a comma in its name: the
\* bindings declared start at the text before the comma and end at a guest
\* path made of the rest of the name and the intended guest path.
C16_FailingInput ==
    /\ inst.launched
    /\ flags.cosaWorkdir = << "w", ",", "x" >>
    /\ flags.binds = << <<>>, <<>> >>
    /\ builder.mounts =
          << << << "w" >>, << "x", ",", "/var/mnt/workdir" >>, TRUE >>,
             << << "w" >>, << "x", "/tmp", ",", "/var/mnt/workdir-tmp" >>,
                FALSE >> >>

\* The errors of a step that comes before an instance exists: validation,
\* configuration, fragments, binds, boot media, launch.
PreInstanceErrors ==
    PreparationErrors \cup { ErrAddBootDisk, ErrAddIso, ErrAddDisk, ErrExec }

\* C17: the run context is cancelled exactly once, as the last thing done,
\* when runQemuExec returns, on every error that comes before an instance
\* exists as on every other path, and not before; whatever inst.WaitAll(ctx)
\* reports, inst.Destroy() has run before the return and before the
\* cancellation.
C17_CancelledOnEveryReturn ==
    /\ Done => /\ cancelled = 1
               /\ Count("cancel") = 1
               /\ calls[Len(calls)] = "cancel"
    /\ ~Done => cancelled = 0 /\ ~Called("cancel")
    /\ (Done /\ ret \in PreInstanceErrors /\ ~inst.launched) => cancelled = 1
    /\ (Done /\ inst.waited = "WaitAll") =>
          /\ inst.destroyed = 1
          /\ FirstCall("WaitAll") < FirstCall("Destroy")
          /\ FirstCall("Destroy") < FirstCall("cancel")

\* A launch that failed: no instance, the context cancelled on return.
C17_Witness ==
    /\ Done
    /\ ret = ErrExec
    /\ ~inst.launched
    /\ cancelled = 1

\* The cause of the returned error: its innermost part.
Cause(e) == IF e = Nil THEN Nil ELSE << e[Len(e)] >>

\* The read of the ignition file failed; its rendering failed.
ReadFailed == Done /\ flags.ignition # "" /\ Cause(ret) = ErrReadFile

FileRenderFailed == Done /\ flags.ignition # "" /\ Cause(ret) = ErrRender

\* e is cause wrapped in a message that names path.
WrapsWithPath(e, cause, path) ==
    /\ Len(e) > Len(cause)
    /\ SubSeq(e, Len(e) - Len(cause) + 1, Len(e)) = cause
    /\ \E i \in 1..(Len(e) - Len(cause)) : e[i] = path

\* The run ended before platform.NewBuilder().
AbortedBeforeBuilder ==
    /\ Done
    /\ ~builder.created
    /\ ~Called("Close")
    /\ ~inst.launched

Rule1 == flags.devshellConsole /\ flags.consoleFile # ""

Rule2 == (flags.devshell \/ flags.devshellConsole) /\ flags.directIgnition

Rule3 ==
    /\ flags.devshell \/ flags.devshellConsole
    /\ flags.diskImage = <<>>
    /\ flags.kolaPlatform = "qemu"

Rule4 == flags.directIgnition /\ flags.ignition = ""

Rule5 == flags.directIgnition /\ flags.ignitionFragments # <<>>

Rule6 == flags.directIgnition /\ flags.binds # << <<>>, <<>> >>

\* The error of the first violated rule, Nil when none is violated.
FirstViolatedRule ==
    IF Rule1 THEN ErrConsoleDevshell
    ELSE IF Rule2 THEN ErrDevshellDirect
    ELSE IF Rule3 THEN ErrNoDiskImage
    ELSE IF Rule4 THEN ErrDirectNoPath
    ELSE IF Rule5 THEN ErrFragmentsDirect
    ELSE IF Rule6 THEN ErrMountsDirect
    ELSE Nil

RulesViolated ==
    Cardinality({ i \in 1..6 :
        << Rule1, Rule2, Rule3, Rule4, Rule5, Rule6 >>[i] })

\* C19: a run whose options violate validation rules returns the error of
\* the first violated rule in the order 1 to 6, that one message alone and
\* the same for the same options, and launches nothing; a run returns a
\* validation error only when its options violate that rule first.
C19_FirstViolatedRuleWins ==
    /\ (Done /\ FirstViolatedRule # Nil) =>
          /\ ret = FirstViolatedRule
          /\ Len(ret) = 1
    /\ FirstViolatedRule # Nil => ~Called("Exec") /\ ~inst.launched
    /\ (Done /\ ret \in OptionConflicts) => ret = FirstViolatedRule

\* Options that violate rules 2, 3, 4 and more: the devshell and direct
\* ignition conflict is the one reported.
C19_Witness ==
    /\ Done
    /\ ~Rule1
    /\ Rule2 /\ Rule3 /\ Rule4
    /\ RulesViolated >= 4
    /\ ret = ErrDevshellDirect

\* C20: builder.Close() is called exactly once by the time runQemuExec has
\* returned when platform.NewBuilder() was reached, on every exit path, and
\* never otherwise or earlier; the returning run ends with Close then
\* cancel, preceded by Destroy when an instance was launched.
C20_BuilderClosedOnce ==
    /\ builder.closed = Count("Close")
    /\ builder.closed = IF Done /\ builder.created THEN 1 ELSE 0
    /\ Called("NewBuilder") <=> builder.created
    /\ (Done /\ builder.created) =>
          /\ FirstCall("NewBuilder") < FirstCall("Close")
          /\ SubSeq(calls, Len(calls) - 1, Len(calls)) = << "Close", "cancel" >>
    /\ (Done /\ inst.launched) =>
          SubSeq(calls, Len(calls) - 2, Len(calls))
              = << "Destroy", "Close", "cancel" >>

\* An instance whose wait failed: destroyed, then the builder closed.
C20_Witness ==
    /\ Done
    /\ inst.launched
    /\ ret \in WaitErrors \ { Nil }
    /\ builder.closed = 1
    /\ inst.destroyed = 1

====
